---- MODULE Spec2Model ----
(***************************************************************************)
(* A model of the Markov transition-matrix analysis of                    *)
(* src/src/core/probability_analyzer.py (class ProbabilityAnalyzer).       *)
(*                                                                         *)
(* Numbers.  Returns (pct_chg) and thresholds are exact rationals held as  *)
(* integers in units of 1/QDen: the five quantile levels 0.1, 0.25, 0.5,   *)
(* 0.75, 0.9 are QuantileLevels[k]/QDen, and the histories are drawn from  *)
(* multiples of QDen, so that the linear interpolation of a quantile is an *)
(* integer in these units.  A threshold is <<v>> for the number v and <<>> *)
(* for NaN (the quantile of an empty column).  A probability is a record   *)
(* [num, den] with den > 0, the exact quotient num/den the code computes   *)
(* in floating point.                                                      *)
(*                                                                         *)
(* Indices.  thresholds, matrix rows and columns keep the 0-based indices  *)
(* of the source.  data and the state lists are TLA+ sequences (1-based);  *)
(* At(s, i) reads them with the source's 0-based index.                    *)
(***************************************************************************)
EXTENDS Integers, Sequences, FiniteSets, TLC

\* ------------------------------------------------------------------ bounds

\* Longest fetched history (rows of pct_chg).
MaxN == 4
\* Returns of a history are QDen * r for r in -MaxRet..MaxRet.
MaxRet == 1
\* Window sizes passed to the estimators are 0..MaxWindow.
MaxWindow == 3

\* Length of the long histories, which exceed both estimation windows.
LongLen == 400
\* Longest run of one return at the end of a long history.
MaxTail == 5

\* Longest price series handed to the harmonic fit (rows of df).
MaxRows == 7
\* Calls of HarmonicAnalyzer.analyze on one analyzer.
MaxAnalyses == 2

\* Longest list of recipients in email_recipients.json.
MaxRecipients == 3

\* Stock codes in config.harmonic.default_stock_codes.
NumSymbols == 2
\* Calls of fetch_index_data and clear_cache one run of the program makes.
MaxCalls == 2

\* --------------------------------------------------------------- constants

\* Common denominator of the quantile levels [0.1, 0.25, 0.5, 0.75, 0.9].
QDen == 20
\* The quantile levels, as numerators over QDen.
QuantileLevels == <<2, 5, 10, 15, 18>>
\* Number of states (len(STATE_LABELS), np.zeros((6, 6)), np.zeros(6)).
NumStates == 6
\* window_size analyze_today and predict_tomorrow pass for order 1 and 2.
FirstOrderWindow == 60
SecondOrderWindow == 360
\* current_state predict_tomorrow falls back to with no state at all.
DefaultState == 3

\* Parameters of objective_function (a, b, c, k, q, d): curve_fit raises
\* TypeError for a series with fewer rows.
MinFitRows == 6

StateIds == 0..(NumStates - 1)
Returns == {QDen * r : r \in (0 - MaxRet)..MaxRet}
Histories == UNION {[1..n -> Returns] : n \in 0..MaxN}
Windows == 0..MaxWindow

VARIABLES
    data,        \* self.data["pct_chg"].values, oldest first
    thresholds,  \* self.thresholds, a function on 0..4
    call,        \* the call whose result the caller holds, with its arguments
    ret,         \* what that call returned; ret.raised names an exception it raised
    memo,        \* the first estimator call a caller kept, with what it returned
    daily,       \* run_daily_analysis: its position and what it has done so far
    harmonic,    \* a HarmonicAnalyzer: output_dir, and the locals of analyze
    mail,        \* a call of send_analysis_email or send_error_email
    main,        \* the polling loop of main in schedule mode
    runs,        \* the runs of the program that share the cache directory
    files,       \* the cache directory: the content of each cache file
    fetch,       \* per run, the fetch_index_data call in progress
    book         \* provider calls and first results per key since clear_cache

vars ==
    <<data, thresholds, call, ret, memo, daily, harmonic, mail, main,
      runs, files, fetch, book>>
analyzerVars == <<data, thresholds, call, ret, memo>>
schedulerVars == <<daily, harmonic, mail, main>>
cacheVars == <<runs, files, fetch, book>>

\* ---------------------------------------------------------------- helpers

NaN == <<>>
Num(v) == <<v>>
\* r <= t for a number r and a threshold t: False when t is NaN.
Le(r, t) == t # NaN /\ r <= t[1]
\* t < r for a threshold t and a number r: False when t is NaN.
Lt(t, r) == t # NaN /\ t[1] < r

At(s, i) == s[i + 1]
Min(a, b) == IF a <= b THEN a ELSE b

\* The element at 0-based position k of sorted(s): the value with at most k
\* elements below it and more than k elements not above it.
OrderStat(s, k) ==
    CHOOSE x \in {s[i] : i \in 1..Len(s)} :
        /\ Cardinality({i \in 1..Len(s) : s[i] < x}) <= k
        /\ Cardinality({i \in 1..Len(s) : s[i] <= x}) > k

\* Series.quantile(q), linear interpolation: position q*(n-1) of the sorted
\* values; NaN for an empty series.
Quantile(s, qnum) ==
    LET n == Len(s)
        h == qnum * (n - 1)
        lo == h \div QDen
        frac == h % QDen
    IN  IF n = 0 THEN NaN
        ELSE IF frac = 0 THEN Num(OrderStat(s, lo))
        ELSE LET below == OrderStat(s, lo)
                 above == OrderStat(s, lo + 1)
             IN  Num(below + ((above - below) * frac) \div QDen)

\* A slice bound of Python: a negative index counts from the end, and both
\* ends are clamped to 0..n.
SliceBound(n, i) ==
    IF i < 0 THEN (IF i + n < 0 THEN 0 ELSE i + n)
    ELSE (IF i > n THEN n ELSE i)

\* values[start:stop]
PySlice(s, start, stop) ==
    LET lo == SliceBound(Len(s), start)
        hi == SliceBound(Len(s), stop)
    IN  IF lo >= hi THEN <<>> ELSE SubSeq(s, lo + 1, hi)

\* values[start:]
PySliceFrom(s, start) ==
    LET lo == SliceBound(Len(s), start)
    IN  IF lo >= Len(s) THEN <<>> ELSE SubSeq(s, lo + 1, Len(s))

\* ----------------------------------------------------------- State Mapper

\* Faulty variant: the empirical median is kept.
CalculateThresholdsNoPin(d) ==
    [k \in 0..4 |-> Quantile(d, QuantileLevels[k + 1])]

\* _calculate_thresholds: the five quantiles, then thresholds[2] = 0.
CalculateThresholds(d) ==
    [[k \in 0..4 |-> Quantile(d, QuantileLevels[k + 1])] EXCEPT ![2] = Num(0)]

\* Faulty variant: strict comparisons, ret < thresholds[k].
MapReturnToStateStrict(r, thr) ==
    IF Le(r + 1, thr[0]) THEN 0
    ELSE IF Le(r + 1, thr[1]) THEN 1
    ELSE IF Le(r + 1, thr[2]) THEN 2
    ELSE IF Le(r + 1, thr[3]) THEN 3
    ELSE IF Le(r + 1, thr[4]) THEN 4
    ELSE 5

\* Faulty variant: the first two branches return each other's state.
MapReturnToStateSwappedLabels(r, thr) ==
    IF Le(r, thr[0]) THEN 1
    ELSE IF Le(r, thr[1]) THEN 0
    ELSE IF Le(r, thr[2]) THEN 2
    ELSE IF Le(r, thr[3]) THEN 3
    ELSE IF Le(r, thr[4]) THEN 4
    ELSE 5

\* _map_return_to_state: the if/elif chain.
MapReturnToState(r, thr) ==
    IF Le(r, thr[0]) THEN 0
    ELSE IF Le(r, thr[1]) THEN 1
    ELSE IF Le(r, thr[2]) THEN 2
    ELSE IF Le(r, thr[3]) THEN 3
    ELSE IF Le(r, thr[4]) THEN 4
    ELSE 5

\* ---------------------------------------------- Transition Matrix Estimator

\* Faulty variant: values[-window_size:-1] when today is excluded.
RecentDataOffByOne(d, window_size, include_today) ==
    IF include_today
    THEN PySliceFrom(d, 0 - window_size)
    ELSE PySlice(d, 0 - window_size, 0 - 1)

\* Faulty variant: the window ends before the last MaxTail returns.
RecentDataBeforeTail(d, window_size, include_today) ==
    PySlice(d, 0 - window_size - MaxTail, 0 - MaxTail)

\* recent_data: values[-window_size:] or values[-window_size-1:-1].
RecentData(d, window_size, include_today) ==
    IF include_today
    THEN PySliceFrom(d, 0 - window_size)
    ELSE PySlice(d, 0 - window_size - 1, 0 - 1)

\* states = [self._map_return_to_state(ret) for ret in recent_data]
StatesOf(recent, thr) ==
    [i \in 1..Len(recent) |-> MapReturnToState(recent[i], thr)]

Prob(n, d) == [num |-> n, den |-> d]
\* np.zeros(6)
Zeros6 == [b \in StateIds |-> Prob(0, 1)]
\* np.zeros((rows, 6)), as counts
ZeroCounts(rows) == [a \in 0..(rows - 1) |-> [b \in StateIds |-> 0]]
\* np.zeros((36, 6)), returned as it is
ZeroMatrix(rows) == [a \in 0..(rows - 1) |-> Zeros6]

RECURSIVE SumTo(_, _)
SumTo(f, b) == IF b < 0 THEN 0 ELSE f[b] + SumTo(f, b - 1)
\* sum(axis=1) of one row
RowSum(row) == SumTo(row, NumStates - 1)

\* Faulty variant: a row without counts becomes the uniform distribution.
NormalizeUniform(m) ==
    [a \in DOMAIN m |->
        IF RowSum(m[a]) = 0
        THEN [b \in StateIds |-> Prob(1, NumStates)]
        ELSE [b \in StateIds |-> Prob(m[a][b], RowSum(m[a]))]]

\* sum() of the whole matrix
RECURSIVE SumRows(_, _)
SumRows(m, a) == IF a < 0 THEN 0 ELSE RowSum(m[a]) + SumRows(m, a - 1)

\* Faulty variant: every row is divided by the total count.
NormalizeByTotal(m) ==
    LET total == SumRows(m, Cardinality(DOMAIN m) - 1)
    IN  [a \in DOMAIN m |->
            [b \in StateIds |-> Prob(m[a][b], IF total = 0 THEN 1 ELSE total)]]

\* Row normalisation: row_sums[row_sums == 0] = 1; matrix / row_sums.
Normalize(m) ==
    [a \in DOMAIN m |->
        LET row_sum == RowSum(m[a])
            divisor == IF row_sum = 0 THEN 1 ELSE row_sum
        IN  [b \in StateIds |-> Prob(m[a][b], divisor)]]

\* for i in range(i, hi): transition_matrix[from_state, to_state] += 1
RECURSIVE CountFirstLoop(_, _, _, _)
CountFirstLoop(states, i, hi, m) ==
    IF i >= hi THEN m
    ELSE CountFirstLoop(states, i + 1, hi,
            [m EXCEPT ![At(states, i)][At(states, i + 1)] = @ + 1])

\* The counts of two runs of a loop of "+= 1", each on a zero matrix.
AddCounts(m1, m2) ==
    [a \in DOMAIN m1 |-> [b \in StateIds |-> m1[a][b] + m2[a][b]]]

\* The loop over range(lo, hi) on np.zeros((6, 6)).  A long range is counted
\* as range(lo, mid), then range(mid, hi), which keeps the evaluation shallow
\* for a window of 60 states.
RECURSIVE CountFirstFrom(_, _, _)
CountFirstFrom(states, lo, hi) ==
    IF hi - lo <= 16 THEN CountFirstLoop(states, lo, hi, ZeroCounts(NumStates))
    ELSE LET mid == (lo + hi) \div 2
         IN  AddCounts(CountFirstFrom(states, lo, mid),
                       CountFirstFrom(states, mid, hi))

\* Faulty variant: for i in range(1, len(states) - 1).
CountFirstSkipOne(states) == CountFirstFrom(states, 1, Len(states) - 1)

\* Faulty variant: the last state is also counted as followed by itself.
CountFirstClosing(states) ==
    LET counts == CountFirstFrom(states, 0, Len(states) - 1)
    IN  IF states = <<>> THEN counts
        ELSE LET last == states[Len(states)]
             IN  [counts EXCEPT ![last][last] = @ + 1]

\* for i in range(len(states) - 1): transition_matrix[from, to] += 1
CountFirst(states) == CountFirstFrom(states, 0, Len(states) - 1)

\* Faulty variant: prev_state1 + prev_state2 * 6.
CombinedStateSwapped(state1, state2) == state1 + state2 * NumStates

\* combined_state = prev_state1 * 6 + prev_state2
CombinedState(state1, state2) == state1 * NumStates + state2

\* for i in range(i, hi): transition_matrix[combined_state, current_state] += 1
RECURSIVE CountSecondLoop(_, _, _, _)
CountSecondLoop(states, i, hi, m) ==
    IF i >= hi THEN m
    ELSE CountSecondLoop(states, i + 1, hi,
            [m EXCEPT ![CombinedState(At(states, i - 2), At(states, i - 1))]
                       [At(states, i)] = @ + 1])

\* The loop over range(lo, hi) on np.zeros((36, 6)), split as in
\* CountFirstFrom for a window of 360 states.
RECURSIVE CountSecondFrom(_, _, _)
CountSecondFrom(states, lo, hi) ==
    IF hi - lo <= 16
    THEN CountSecondLoop(states, lo, hi, ZeroCounts(NumStates * NumStates))
    ELSE LET mid == (lo + hi) \div 2
         IN  AddCounts(CountSecondFrom(states, lo, mid),
                       CountSecondFrom(states, mid, hi))

\* for i in range(2, len(states)): transition_matrix[combined, current] += 1
CountSecond(states) == CountSecondFrom(states, 2, Len(states))

\* create_first_order_matrix: (transition_matrix, states)
FirstOrderMatrix(d, thr, window_size, include_today) ==
    LET states == StatesOf(RecentData(d, window_size, include_today), thr)
    IN  [raised |-> "", matrix |-> Normalize(CountFirst(states)), states |-> states]

\* create_second_order_matrix: (transition_matrix, states)
SecondOrderMatrix(d, thr, window_size, include_today) ==
    LET states == StatesOf(RecentData(d, window_size, include_today), thr)
    IN  IF Len(states) < 3
        THEN [raised |-> "", matrix |-> ZeroMatrix(NumStates * NumStates),
              states |-> states]
        ELSE [raised |-> "", matrix |-> Normalize(CountSecond(states)),
              states |-> states]

\* ----------------------------------------------------- Transition Predictor

\* The Python values a caller can pass as current_state.  type is the Python
\* type, v the value of an int, items the elements of a tuple or a list.
PyNone == [type |-> "None", v |-> 0, items |-> <<>>]
PyInt(n) == [type |-> "int", v |-> n, items |-> <<>>]
PyStr == [type |-> "str", v |-> 0, items |-> <<>>]
PyTuple(items) == [type |-> "tuple", v |-> 0, items |-> items]
PyList(items) == [type |-> "list", v |-> 0, items |-> items]

\* 0 <= x <= 5 is defined for a number and raises TypeError for None, a str, a
\* tuple or a list.
Orderable(x) == x.type = "int"
InRange(x) == 0 <= x.v /\ x.v <= 5

ZeroPrediction == [raised |-> "", probs |-> Zeros6, current_state |-> PyNone]

\* _predict_with_first_order_matrix: (probabilities, current_state)
PredictWithFirstOrderMatrix(matrix, current_state) ==
    IF current_state.type = "None" THEN ZeroPrediction
    ELSE IF ~Orderable(current_state) THEN [raised |-> "TypeError"]
    ELSE IF ~InRange(current_state) THEN ZeroPrediction
    ELSE [raised |-> "", probs |-> matrix[current_state.v],
          current_state |-> current_state]

\* A predictor that reads the row of the pair in the other order.
PredictWithSecondOrderMatrixNewerFirst(matrix, current_state) ==
    IF current_state.type = "None" THEN ZeroPrediction
    ELSE IF current_state.type # "tuple" \/ Len(current_state.items) # 2
    THEN ZeroPrediction
    ELSE LET state1 == current_state.items[1]
             state2 == current_state.items[2]
         IN  IF ~Orderable(state1) THEN [raised |-> "TypeError"]
             ELSE IF ~InRange(state1) THEN ZeroPrediction
             ELSE IF ~Orderable(state2) THEN [raised |-> "TypeError"]
             ELSE IF ~InRange(state2) THEN ZeroPrediction
             ELSE [raised |-> "",
                   probs |-> matrix[CombinedState(state2.v, state1.v)],
                   current_state |-> current_state]

\* _predict_with_second_order_matrix: (probabilities, current_state).  The
\* range test is 0 <= state1 <= 5 and 0 <= state2 <= 5: state2 is compared only
\* when state1 is in range.
PredictWithSecondOrderMatrix(matrix, current_state) ==
    IF current_state.type = "None" THEN ZeroPrediction
    ELSE IF current_state.type # "tuple" \/ Len(current_state.items) # 2
    THEN ZeroPrediction
    ELSE LET state1 == current_state.items[1]
             state2 == current_state.items[2]
         IN  IF ~Orderable(state1) THEN [raised |-> "TypeError"]
             ELSE IF ~InRange(state1) THEN ZeroPrediction
             ELSE IF ~Orderable(state2) THEN [raised |-> "TypeError"]
             ELSE IF ~InRange(state2) THEN ZeroPrediction
             ELSE [raised |-> "",
                   probs |-> matrix[CombinedState(state1.v, state2.v)],
                   current_state |-> current_state]

\* The probabilities _predict_with_first_order_matrix returns for the integer
\* state analyze_today and predict_tomorrow pass.
PredictFirst(matrix, current_state) ==
    PredictWithFirstOrderMatrix(matrix, PyInt(current_state)).probs

\* The probabilities _predict_with_second_order_matrix returns for the tuple
\* (state1, state2) of two integer states.
PredictSecond(matrix, state1, state2) ==
    PredictWithSecondOrderMatrix(
        matrix, PyTuple(<<PyInt(state1), PyInt(state2)>>)).probs

\* Faulty variant: one probability of 0 is enough for "strong".
AlertLevelEitherStrong(first_order_prob, second_order_prob) ==
    IF first_order_prob.num = 0 \/ second_order_prob.num = 0 THEN "strong"
    ELSE "none"

\* The alert level analyze_today derives from the two probabilities.
AlertLevel(first_order_prob, second_order_prob) ==
    IF first_order_prob.num = 0 /\ second_order_prob.num = 0 THEN "strong"
    ELSE IF first_order_prob.num = 0 \/ second_order_prob.num = 0 THEN "normal"
    ELSE "none"

\* Faulty variant of analyze_today: the matrices are estimated with
\* include_today=True.
AnalyzeTodayResultWithToday(d, thr) ==
    IF Len(d) = 0 THEN [raised |-> "IndexError"]
    ELSE
    LET today_return == d[Len(d)]
        today_state == MapReturnToState(today_return, thr)
        first == FirstOrderMatrix(d, thr, FirstOrderWindow, TRUE)
        first_order_probs ==
            IF Len(first.states) >= 1
            THEN PredictFirst(first.matrix, first.states[Len(first.states)])
            ELSE Zeros6
        second == SecondOrderMatrix(d, thr, SecondOrderWindow, TRUE)
        second_order_probs ==
            IF Len(second.states) >= 2
            THEN PredictSecond(second.matrix,
                               second.states[Len(second.states) - 1],
                               second.states[Len(second.states)])
            ELSE Zeros6
        first_order_prob == first_order_probs[today_state]
        second_order_prob == second_order_probs[today_state]
    IN  [raised |-> "",
         today_return |-> today_return,
         today_state |-> today_state,
         first_order_probs |-> first_order_probs,
         second_order_probs |-> second_order_probs,
         alert_level |-> AlertLevel(first_order_prob, second_order_prob),
         first_order_prob |-> first_order_prob,
         second_order_prob |-> second_order_prob]

\* analyze_today: values[-1] raises IndexError on an empty history.
AnalyzeTodayResult(d, thr) ==
    IF Len(d) = 0 THEN [raised |-> "IndexError"]
    ELSE
    LET today_return == d[Len(d)]
        today_state == MapReturnToState(today_return, thr)
        first == FirstOrderMatrix(d, thr, FirstOrderWindow, FALSE)
        first_order_probs ==
            IF Len(first.states) >= 1
            THEN PredictFirst(first.matrix, first.states[Len(first.states)])
            ELSE Zeros6
        second == SecondOrderMatrix(d, thr, SecondOrderWindow, FALSE)
        second_order_probs ==
            IF Len(second.states) >= 2
            THEN PredictSecond(second.matrix,
                               second.states[Len(second.states) - 1],
                               second.states[Len(second.states)])
            ELSE Zeros6
        first_order_prob == first_order_probs[today_state]
        second_order_prob == second_order_probs[today_state]
    IN  [raised |-> "",
         today_return |-> today_return,
         today_state |-> today_state,
         first_order_probs |-> first_order_probs,
         second_order_probs |-> second_order_probs,
         alert_level |-> AlertLevel(first_order_prob, second_order_prob),
         first_order_prob |-> first_order_prob,
         second_order_prob |-> second_order_prob]

\* Faulty variant of predict_tomorrow: the matrices are estimated with
\* include_today=False.
PredictTomorrowResultWithoutToday(d, thr) ==
    LET first == FirstOrderMatrix(d, thr, FirstOrderWindow, FALSE)
        current_state ==
            IF Len(first.states) >= 1
            THEN first.states[Len(first.states)]
            ELSE DefaultState
        first_order_probs ==
            IF Len(first.states) >= 1
            THEN PredictFirst(first.matrix, current_state)
            ELSE Zeros6
        second == SecondOrderMatrix(d, thr, SecondOrderWindow, FALSE)
        second_order_probs ==
            IF Len(second.states) >= 2
            THEN PredictSecond(second.matrix,
                               second.states[Len(second.states) - 1],
                               second.states[Len(second.states)])
            ELSE Zeros6
    IN  [raised |-> "",
         current_state |-> current_state,
         first_order_probs |-> first_order_probs,
         second_order_probs |-> second_order_probs]

\* predict_tomorrow
PredictTomorrowResult(d, thr) ==
    LET first == FirstOrderMatrix(d, thr, FirstOrderWindow, TRUE)
        current_state ==
            IF Len(first.states) >= 1
            THEN first.states[Len(first.states)]
            ELSE DefaultState
        first_order_probs ==
            IF Len(first.states) >= 1
            THEN PredictFirst(first.matrix, current_state)
            ELSE Zeros6
        second == SecondOrderMatrix(d, thr, SecondOrderWindow, TRUE)
        second_order_probs ==
            IF Len(second.states) >= 2
            THEN PredictSecond(second.matrix,
                               second.states[Len(second.states) - 1],
                               second.states[Len(second.states)])
            ELSE Zeros6
    IN  [raised |-> "",
         current_state |-> current_state,
         first_order_probs |-> first_order_probs,
         second_order_probs |-> second_order_probs]

\* analyze: analyze_today, then predict_tomorrow.
AnalyzeResult(d, thr) ==
    LET today == AnalyzeTodayResult(d, thr)
    IN  IF today.raised # "" THEN [raised |-> today.raised]
        ELSE [raised |-> "", today |-> today,
              tomorrow |-> PredictTomorrowResult(d, thr)]

\* ------------------------------------------------------------- daily run

\* config.harmonic.default_stock_codes, by position, and
\* config.harmonic.frequencies.
Symbols == 1..NumSymbols
Frequencies == <<"D", "W">>

\* One analysis of a daily run: the harmonic fit of a symbol and a frequency,
\* the probability analysis of a symbol, the FX, gold and Fibonacci analyses.
Unit(kind, symbol, freq) == [kind |-> kind, symbol |-> symbol, freq |-> freq]
HarmonicUnits ==
    {Unit("harmonic", sy, Frequencies[f]) : sy \in Symbols, f \in DOMAIN Frequencies}
ProbabilityUnits == {Unit("probability", sy, "") : sy \in Symbols}
AllUnits ==
    HarmonicUnits \cup ProbabilityUnits
        \cup {Unit("fx", 0, ""), Unit("gold", 0, ""), Unit("fabo", 0, "")}

\* No daily run has started.
DailyIdle ==
    [pc |-> "idle", symbol |-> 1, freq |-> 1, order |-> <<>>,
     done |-> {}, skipped |-> {}, failed |-> {}, sent |-> <<>>]

\* An analysis is started: order lists the analyses in the order of their
\* start.
Started(d, unit) == [d EXCEPT !.order = Append(@, unit)]

\* Faulty variant: the failure is recorded and the run goes on to the report.
RaiseAndReport(d, unit) == [d EXCEPT !.failed = @ \cup {unit}, !.pc = "send"]

\* An exception leaves the analysis, its run_* function and the try block of
\* run_daily_analysis: the except clause is next.
Raise(d, unit) == [d EXCEPT !.failed = @ \cup {unit}, !.pc = "except"]

\* The loops of run_harmonic_analysis and HarmonicAnalyzer.analyze go on with
\* the next frequency, then the next stock code; after the last one
\* run_probability_analysis is called.
NextHarmonic(d) ==
    IF d.freq < Len(Frequencies) THEN [d EXCEPT !.freq = @ + 1]
    ELSE IF d.symbol < NumSymbols THEN [d EXCEPT !.symbol = @ + 1, !.freq = 1]
    ELSE [d EXCEPT !.pc = "probability", !.symbol = 1, !.freq = 1]

\* The loop of run_probability_analysis; after it run_fx_analysis is called.
NextProbability(d) ==
    IF d.symbol < NumSymbols THEN [d EXCEPT !.symbol = @ + 1]
    ELSE [d EXCEPT !.pc = "fx", !.symbol = 1]

\* ------------------------------------------------------- Harmonic Fitter

\* A rational number; den is positive.
Frac(n, d) == [num |-> n, den |-> d]
FracSub(p, q) == Frac(p.num * q.den - q.num * p.den, p.den * q.den)
FracLess(p, q) == p.num * q.den < q.num * p.den
FracLeq(p, q) == p.num * q.den <= q.num * p.den
FracEq(p, q) == p.num * q.den = q.num * p.den

\* np.linspace(0, stop, num): num points from 0 to stop, both included, so
\* the step is stop / (num - 1).
Linspace(stop, num) ==
    [i \in 1..num |-> Frac((i - 1) * stop, IF num = 1 THEN 1 ELSE num - 1)]

\* The parameters curve_fit returns here have b = c = 0: the amplitude
\* b * x + c of the sine is zero and objective_function is a * x + d.
FitParams == {[a |-> a, b |-> 0, c |-> 0, k |-> 0, q |-> 0, d |-> d] :
                a \in {0, 1}, d \in {0, 1}}

\* objective_function: a * x + (b * x + c) * np.sin(k * x + q) + d
ObjectiveFunction(x, p) == Frac(p.a * x.num + p.d * x.den, x.den)

\* offset = 100 for "W", 500 otherwise
OffsetOf(freq) == IF freq = "W" THEN 100 ELSE 500

\* The close prices of a fetched frame, oldest first.
Closes == {1, 2}
PriceSeries == UNION {[1..n -> Closes] : n \in {0, 1, 2, MinFitRows, MaxRows}}

\* scipy.stats.percentileofscore(a, score, kind="rank"):
\* (left + right + (1 if right > left else 0)) * 50 / n
PercentileOfScore(a, score) ==
    LET left == Cardinality({i \in DOMAIN a : FracLess(a[i], score)})
        right == Cardinality({i \in DOMAIN a : FracLeq(a[i], score)})
        plus1 == IF left < right THEN 1 ELSE 0
    IN  Frac((left + right + plus1) * 50, Len(a))

\* The grids of analyze (x) and of _prepare_plot_data (x1).
FitGrid(n) == Linspace(n, n)
PlotGrid(n, offset) == Linspace(n + offset, n + offset)

\* _prepare_plot_data: diffs = y - y1[:-offset], with y1 the fitted function
\* over x1; curr and percentile of stats (mean and std are not modelled).
PreparePlotData(params, df, offset) ==
    LET n == Len(df)
        x1 == PlotGrid(n, offset)
        diffs == [i \in 1..n |->
                    FracSub(Frac(df[i], 1), ObjectiveFunction(x1[i], params))]
    IN  [diffs |-> diffs,
         y1_len |-> Len(x1),
         curr |-> diffs[n],
         percentile |-> PercentileOfScore(diffs, diffs[n])]

\* The locals of analyze outside an iteration of its loop.
NoPlot == [diffs |-> <<>>, y1_len |-> 0, curr |-> Frac(0, 1), percentile |-> Frac(0, 1)]
NoParams == [a |-> 0, b |-> 0, c |-> 0, k |-> 0, q |-> 0, d |-> 0]

\* os.path.join(self.output_dir, freq), a path as its components
JoinPath(dir, name) == Append(dir, name)
DefaultOutputDir == <<"analysis_results">>

\* The lists of frequencies analyze is called with.
FrequencyLists == {<<"D", "W">>, <<"D">>, <<"W">>, <<>>}

\* HarmonicAnalyzer.__init__: no call of analyze yet.
HarmonicIdle ==
    [pc |-> "idle", output_dir |-> DefaultOutputDir, calls_left |-> 0,
     frequencies |-> <<>>, i |-> 1, last |-> "",
     df |-> <<>>, x |-> <<>>, params |-> NoParams, plot |-> NoPlot]

\* ------------------------------------------------------------- email

\* The addresses of email_recipients.json and the lists made of them.
Recipients == 1..MaxRecipients
RecipientLists ==
    {l \in UNION {[1..n -> Recipients] : n \in 0..MaxRecipients} :
        \A i, j \in DOMAIN l : i # j => l[i] # l[j]}

\* What a call of send_analysis_email or send_error_email finds:
\*   config_complete  all(email_config.values())
\*   recipients       load_email_recipients()
\*   setup_raises     a statement outside the loop raises (int() of SMTP_PORT,
\*                    EmailSender(email_config), a result without plot_path)
\*   body_raises      generate_html_email_body raises for these results
\*   refused          the recipients for which EmailSender.send_email raises
MailEnvs ==
    [config_complete : BOOLEAN, recipients : RecipientLists,
     setup_raises : BOOLEAN, body_raises : BOOLEAN, refused : SUBSET Recipients]

\* The calls made by run_daily_analysis, which sees of a call only whether
\* it raised: no recipient or one, refused or not.
DailyMailEnvs ==
    UNION {[config_complete : BOOLEAN, recipients : {l},
            setup_raises : BOOLEAN, body_raises : BOOLEAN,
            refused : SUBSET {l[i] : i \in DOMAIN l}] :
           l \in {<<>>} \cup {<<r>> : r \in Recipients}}

\* One send attempt: email_sender.send_email(recipient, ...) was called and
\* returned or raised.
Attempt(recipient, refused) == [to |-> recipient, raised |-> recipient \in refused]

\* Faulty variant: the loop ends at the first recipient whose send raises.
RECURSIVE SendLoopStopsAtFailure(_, _, _)
SendLoopStopsAtFailure(recipients, refused, i) ==
    IF i > Len(recipients) THEN <<>>
    ELSE IF recipients[i] \in refused THEN <<Attempt(recipients[i], refused)>>
    ELSE <<Attempt(recipients[i], refused)>>
            \o SendLoopStopsAtFailure(recipients, refused, i + 1)

\* for recipient in recipients: try: email_sender.send_email(...)
\* except Exception: logging.error(...)
RECURSIVE SendLoop(_, _, _)
SendLoop(recipients, refused, i) ==
    IF i > Len(recipients) THEN <<>>
    ELSE <<Attempt(recipients[i], refused)>> \o SendLoop(recipients, refused, i + 1)

\* What a call of a send function did: the exception that reached its
\* caller ("" for none) and the send attempts in the order they were made.
MailResult(raised, attempts) == [raised |-> raised, attempts |-> attempts]

\* Faulty variant: send_error_email without its outer try/except.
SendErrorEmailResultUncaught(env) ==
    IF env.setup_raises THEN MailResult("Exception", <<>>)
    ELSE IF ~env.config_complete THEN MailResult("", <<>>)
    ELSE IF env.recipients = <<>> THEN MailResult("", <<>>)
    ELSE MailResult("", SendLoop(env.recipients, env.refused, 1))

\* send_error_email: the body is built before the loop.
SendErrorEmailResult(env) ==
    IF env.setup_raises THEN MailResult("", <<>>)
    ELSE IF ~env.config_complete THEN MailResult("", <<>>)
    ELSE IF env.recipients = <<>> THEN MailResult("", <<>>)
    ELSE MailResult("", SendLoop(env.recipients, env.refused, 1))

\* send_analysis_email: the body is built for each recipient inside the try
\* of the loop, before the send.
SendAnalysisEmailResult(env) ==
    IF env.setup_raises THEN MailResult("", <<>>)
    ELSE IF ~env.config_complete THEN MailResult("", <<>>)
    ELSE IF env.recipients = <<>> THEN MailResult("", <<>>)
    ELSE IF env.body_raises THEN MailResult("", <<>>)
    ELSE MailResult("", SendLoop(env.recipients, env.refused, 1))

\* No call of send_analysis_email or send_error_email has been made.
NoEnv ==
    [config_complete |-> FALSE, recipients |-> <<>>, setup_raises |-> FALSE,
     body_raises |-> FALSE, refused |-> {}]
MailIdle == [pc |-> "idle", kind |-> "", env |-> NoEnv, result |-> MailResult("", <<>>)]

\* ------------------------------------------------------------- main

\* main has not entered its polling loop.
MainIdle == [pc |-> "idle", last |-> ""]

\* Nothing of the scheduler is running.
SchedulerIdle ==
    /\ daily = DailyIdle
    /\ harmonic = HarmonicIdle
    /\ mail = MailIdle
    /\ main = MainIdle

\* ------------------------------------------------------------ data cache

\* The keys fetch_index_data is called with: index_code, the date range
\* start_date_end_date and freq.
DateRanges == {"20150220_20260522", "20190215_20260128", "20110401_20260401"}
Keys == [index_code : {"399006.SZ"}, range : DateRanges, freq : {"D"}]

\* hashlib.md5(f"{start_date}_{end_date}_{freq}").hexdigest()[:8], the first 32
\* of the 128 bits of the digest: the values MD5 has for the ranges of the
\* model with freq "D".  The first two ranges have the same prefix.
DateHash(range, freq) ==
    IF range = "20110401_20260401" THEN "ef057995" ELSE "0c8a46c1"

\* _generate_cache_filename: f"{index_code}_{freq}_{date_hash}.csv"
CacheFilename(key) == <<key.index_code, key.freq, DateHash(key.range, key.freq)>>
Filenames == {CacheFilename(k) : k \in Keys}

\* The trade_date column of a frame, newest row first as the provider sends
\* it.  A cell is a trading day (a positive day number), Python's None, or
\* the empty text a CSV file has for None.
NoneCell == 0
EmptyText == 0 - 1
ProviderFrames == {<<2, 1>>, <<NoneCell, 1>>}

\* df.to_csv(cache_path, index=False): None is written as the empty text.
ToCsv(df) == [i \in 1..Len(df) |-> IF df[i] = NoneCell THEN EmptyText ELSE df[i]]
\* pd.read_csv(..., converters={"trade_date": str}): each cell as its text.
ReadCsv(rows) == rows

\* pd.to_datetime(..., format="%Y%m%d", errors="coerce") is a date for a
\* trading day and NaT for "None" and for the empty text.
ValidDate(cell) == cell > 0

RECURSIVE InsertByDate(_, _)
InsertByDate(x, s) ==
    IF s = <<>> THEN <<x>>
    ELSE IF x <= Head(s) THEN <<x>> \o s
    ELSE <<Head(s)>> \o InsertByDate(x, Tail(s))

\* sort_values("trade_date")
RECURSIVE SortByDate(_)
SortByDate(s) ==
    IF s = <<>> THEN <<>> ELSE InsertByDate(Head(s), SortByDate(Tail(s)))

\* _process_data: rows without a valid date are dropped, the rest is sorted
\* by trade_date.
ProcessData(df) == SortByDate(SelectSeq(df, ValidDate))

\* A cache file: absent, or present with the rows written so far; complete
\* is false between the opening of the file by to_csv and its closing.
Absent == [present |-> FALSE, complete |-> FALSE, rows |-> <<>>]
Opened == [present |-> TRUE, complete |-> FALSE, rows |-> <<>>]
Written(rows) == [present |-> TRUE, complete |-> TRUE, rows |-> rows]

\* Faulty variant: the cache file is never found.
CacheExistsNever(fs, name) == FALSE

\* os.path.exists(cache_path)
CacheExists(fs, name) == fs[name].present

\* A run outside fetch_index_data, with the calls it can still make and the
\* outcome of its last call.
NoResult ==
    [raised |-> "", rows |-> <<>>, key |-> <<>>, nth |-> 0, used_provider |-> FALSE]
FetchIdle(calls_left, result) ==
    [pc |-> "idle", key |-> <<>>, df |-> <<>>, used_provider |-> FALSE,
     calls_left |-> calls_left, result |-> result]

\* Since the last clear_cache: the provider calls that returned a frame and
\* the successful fetches per key, and the rows of the first of them; seen
\* holds the races on a cache file that have happened.
NoFirstRows == <<>>
BookEmpty(seen) ==
    [provided |-> [k \in Keys |-> 0],
     successes |-> [k \in Keys |-> 0],
     first_rows |-> [k \in Keys |-> NoFirstRows],
     seen |-> seen]

\* No run is fetching and the cache directory is empty.
CacheIdle ==
    /\ runs = {1}
    /\ files = [name \in Filenames |-> Absent]
    /\ fetch = [p \in {1, 2} |-> FetchIdle(0, NoResult)]
    /\ book = BookEmpty({})

\* ------------------------------------------------------------ state machine

Call(op, r, w, inc) ==
    [op |-> op, ret |-> r, window_size |-> w, include_today |-> inc,
     current_state |-> PyNone]

\* A call of a predictor with the argument current_state.
PredictCall(op, current_state) ==
    [op |-> op, ret |-> 0, window_size |-> 0, include_today |-> TRUE,
     current_state |-> current_state]

\* The returns _map_return_to_state is called with: the returns of a history,
\* and every threshold with its two neighbours.
ProbeReturns(thr) ==
    Returns \cup {thr[k][1] + e : k \in {j \in 0..4 : thr[j] # NaN}, e \in {0 - 1, 0, 1}}

\* The arguments the predictors are called with: every state, the integers
\* next to the range, and values that are no state at all.
FirstOrderArgs ==
    {PyInt(n) : n \in (0 - 1)..NumStates}
        \cup {PyNone, PyStr, PyTuple(<<PyInt(DefaultState), PyInt(DefaultState)>>)}

\* What a component of a pair can be when it is no state.
BadComponents == {PyNone, PyStr, PyInt(0 - 1), PyInt(NumStates)}

\* Every pair of states, the pairs with one or two components that are no
\* state, and values that are no pair at all.
SecondOrderArgs ==
    {PyTuple(<<PyInt(a), PyInt(b)>>) : a \in StateIds, b \in StateIds}
        \cup {PyTuple(<<c, PyInt(DefaultState)>>) : c \in BadComponents}
        \cup {PyTuple(<<PyInt(DefaultState), c>>) : c \in BadComponents}
        \cup {PyTuple(<<c, e>>) : c \in BadComponents, e \in BadComponents}
        \cup {PyNone, PyStr, PyInt(DefaultState),
              PyList(<<PyInt(DefaultState), PyInt(DefaultState)>>),
              PyTuple(<<>>), PyTuple(<<PyInt(DefaultState)>>),
              PyTuple(<<PyInt(DefaultState), PyInt(DefaultState),
                        PyInt(DefaultState)>>)}

\* The matrices predict_tomorrow hands to the predictors.
TomorrowFirstMatrix(d, thr) ==
    FirstOrderMatrix(d, thr, FirstOrderWindow, TRUE).matrix
TomorrowSecondMatrix(d, thr) ==
    SecondOrderMatrix(d, thr, SecondOrderWindow, TRUE).matrix

\* Long histories: an optional first return, then a repeated pattern of
\* returns, then a run of one return c (the last t returns), which can be a
\* return larger than every return before it.
BaseReturns == {0 - QDen, 0, QDen}
Extreme == (MaxRet + 1) * QDen
LongLengths == {FirstOrderWindow + 2, SecondOrderWindow + 2, LongLen}
Patterns == UNION {[1..p -> BaseReturns] : p \in {1, 2}}
Heads == {<<>>, <<QDen>>}
TailLengths == {0, 1, MaxTail}
LongHistory(n, head, pat, c, t) ==
    [i \in 1..n |->
        IF i <= Len(head) THEN head[i]
        ELSE IF i > n - t THEN c
        ELSE pat[((i - 1) % Len(pat)) + 1]]
LongHistories ==
    {LongHistory(n, head, pat, c, t) :
        n \in LongLengths, head \in Heads, pat \in Patterns,
        c \in {0 - QDen, QDen, Extreme}, t \in TailLengths}

\* No call is in progress: the caller holds no result of the analyzer.
NoCall == Call("none", 0, 0, TRUE)
Idle == call = NoCall

\* What a caller that compares two estimations keeps of the first one: the
\* call, the tuple (transition_matrix, states) it returned, and the history
\* and thresholds the analyzer had then.  A caller that keeps nothing has
\* keeping = FALSE.
NoMemo == [keeping |-> FALSE, calls |-> <<>>]
EmptyMemo == [keeping |-> TRUE, calls |-> <<>>]
Remember(m, c, r, d, thr) ==
    IF m.keeping /\ m.calls = <<>>
    THEN [m EXCEPT !.calls = <<[call |-> c, ret |-> r, data |-> d, thresholds |-> thr]>>]
    ELSE m

\* No analyzer has been built.
AnalyzerIdle ==
    /\ data = <<>>
    /\ thresholds = CalculateThresholds(<<>>)
    /\ call = NoCall
    /\ ret = [raised |-> ""]
    /\ memo = NoMemo

\* __init__: _fetch_data, then _calculate_thresholds.
Init ==
    \E h \in Histories :
        /\ data = h
        /\ thresholds = CalculateThresholds(h)
        /\ call = NoCall
        /\ ret = [raised |-> ""]
        /\ memo = NoMemo
        /\ SchedulerIdle
        /\ CacheIdle

\* Faulty variant: the estimator consumes the most recent return.
CreateFirstOrderMatrixConsuming(w, inc) ==
    /\ Idle
    /\ call' = Call("first", 0, w, inc)
    /\ ret' = FirstOrderMatrix(data, thresholds, w, inc)
    /\ memo' = Remember(memo, call', ret', data, thresholds)
    /\ data' = SubSeq(data, 1, Len(data) - 1)
    /\ UNCHANGED <<thresholds, schedulerVars, cacheVars>>

\* The program is sequential: a call is made when the one before it has
\* returned to its caller.
MapReturn(r) ==
    /\ Idle
    /\ call' = Call("map", r, 0, TRUE)
    /\ ret' = [raised |-> "", state |-> MapReturnToState(r, thresholds)]
    /\ UNCHANGED <<data, thresholds, memo, schedulerVars, cacheVars>>

CreateFirstOrderMatrix(w, inc) ==
    /\ Idle
    /\ call' = Call("first", 0, w, inc)
    /\ ret' = FirstOrderMatrix(data, thresholds, w, inc)
    /\ memo' = Remember(memo, call', ret', data, thresholds)
    /\ UNCHANGED <<data, thresholds, schedulerVars, cacheVars>>

CreateSecondOrderMatrix(w, inc) ==
    /\ Idle
    /\ call' = Call("second", 0, w, inc)
    /\ ret' = SecondOrderMatrix(data, thresholds, w, inc)
    /\ memo' = Remember(memo, call', ret', data, thresholds)
    /\ UNCHANGED <<data, thresholds, schedulerVars, cacheVars>>

PredictFirstOrder(current_state) ==
    /\ Idle
    /\ call' = PredictCall("predict1", current_state)
    /\ ret' = PredictWithFirstOrderMatrix(
                    TomorrowFirstMatrix(data, thresholds), current_state)
    /\ UNCHANGED <<data, thresholds, memo, schedulerVars, cacheVars>>

PredictSecondOrder(current_state) ==
    /\ Idle
    /\ call' = PredictCall("predict2", current_state)
    /\ ret' = PredictWithSecondOrderMatrix(
                    TomorrowSecondMatrix(data, thresholds), current_state)
    /\ UNCHANGED <<data, thresholds, memo, schedulerVars, cacheVars>>

AnalyzeToday ==
    /\ Idle
    /\ call' = Call("today", 0, 0, TRUE)
    /\ ret' = AnalyzeTodayResult(data, thresholds)
    /\ UNCHANGED <<data, thresholds, memo, schedulerVars, cacheVars>>

PredictTomorrow ==
    /\ Idle
    /\ call' = Call("tomorrow", 0, 0, TRUE)
    /\ ret' = PredictTomorrowResult(data, thresholds)
    /\ UNCHANGED <<data, thresholds, memo, schedulerVars, cacheVars>>

Analyze ==
    /\ Idle
    /\ call' = Call("analyze", 0, 0, TRUE)
    /\ ret' = AnalyzeResult(data, thresholds)
    /\ UNCHANGED <<data, thresholds, memo, schedulerVars, cacheVars>>

\* The caller takes the result (result = analyzer.analyze()); the analyzer
\* keeps nothing of the call.
Return ==
    /\ ~Idle
    /\ call' = NoCall
    /\ ret' = [raised |-> ""]
    /\ UNCHANGED <<data, thresholds, memo, schedulerVars, cacheVars>>

Next ==
    \/ \E r \in ProbeReturns(thresholds) : MapReturn(r)
    \/ \E w \in Windows, inc \in BOOLEAN : CreateFirstOrderMatrix(w, inc)
    \/ \E w \in Windows, inc \in BOOLEAN : CreateSecondOrderMatrix(w, inc)
    \/ \E x \in FirstOrderArgs : PredictFirstOrder(x)
    \/ \E x \in SecondOrderArgs : PredictSecondOrder(x)
    \/ AnalyzeToday
    \/ PredictTomorrow
    \/ Analyze
    \/ Return

Spec == Init /\ [][Next]_vars

\* The analyzer over a long history, called as run_probability_analysis
\* calls it.
InitLong ==
    \E h \in LongHistories :
        /\ data = h
        /\ thresholds = CalculateThresholds(h)
        /\ call = NoCall
        /\ ret = [raised |-> ""]
        /\ memo = NoMemo
        /\ SchedulerIdle
        /\ CacheIdle

NextLong ==
    \/ AnalyzeToday
    \/ PredictTomorrow
    \/ Analyze
    \/ Return

SpecLong == InitLong /\ [][NextLong]_vars

\* A caller that estimates, keeps the first result, goes on calling the
\* estimators, analyze_today and predict_tomorrow, and compares.
RepeatWindows == {MaxWindow}

InitRepeat ==
    \E h \in Histories :
        /\ data = h
        /\ thresholds = CalculateThresholds(h)
        /\ call = NoCall
        /\ ret = [raised |-> ""]
        /\ memo = EmptyMemo
        /\ SchedulerIdle
        /\ CacheIdle

NextRepeat ==
    \/ \E w \in RepeatWindows, inc \in BOOLEAN : CreateFirstOrderMatrix(w, inc)
    \/ \E w \in RepeatWindows, inc \in BOOLEAN : CreateSecondOrderMatrix(w, inc)
    \/ AnalyzeToday
    \/ PredictTomorrow
    \/ Return

SpecRepeat == InitRepeat /\ [][NextRepeat]_vars

\* -------------------------------------------- state machine: the daily run

\* schedule calls run_daily_analysis; AnalysisConfig() is built and
\* run_harmonic_analysis starts with the first stock code and frequency.
StartDailyRun ==
    /\ daily.pc = "idle"
    /\ daily' = [daily EXCEPT !.pc = "harmonic"]
    /\ UNCHANGED <<analyzerVars, cacheVars, harmonic, mail, main>>

\* One iteration of the loop of HarmonicAnalyzer.analyze: the fetch returns no
\* row ("empty": continue), or the fit and the chart succeed ("ok"), or the
\* fetch, curve_fit or the plot raises ("raise").
HarmonicFit(outcome) ==
    /\ daily.pc = "harmonic"
    /\ LET unit == Unit("harmonic", daily.symbol, Frequencies[daily.freq])
       IN  daily' =
            IF outcome = "raise" THEN Raise(Started(daily, unit), unit)
            ELSE IF outcome = "empty"
            THEN NextHarmonic([Started(daily, unit) EXCEPT !.skipped = @ \cup {unit}])
            ELSE NextHarmonic([Started(daily, unit) EXCEPT !.done = @ \cup {unit}])
    /\ UNCHANGED <<analyzerVars, cacheVars, harmonic, mail, main>>

\* One iteration of the loop of run_probability_analysis: the analyzer is
\* built, analyze() and print_analysis_result() return, or one of them raises.
ProbabilityAnalysis(outcome) ==
    /\ daily.pc = "probability"
    /\ LET unit == Unit("probability", daily.symbol, "")
       IN  daily' =
            IF outcome = "raise" THEN Raise(Started(daily, unit), unit)
            ELSE NextProbability([Started(daily, unit) EXCEPT !.done = @ \cup {unit}])
    /\ UNCHANGED <<analyzerVars, cacheVars, harmonic, mail, main>>

\* run_fx_analysis, run_gold_analysis, run_fabo_analysis, in this order.
SingleAnalysis(kind, next, outcome) ==
    /\ daily.pc = kind
    /\ LET unit == Unit(kind, 0, "")
       IN  daily' =
            IF outcome = "raise" THEN Raise(Started(daily, unit), unit)
            ELSE [Started(daily, unit) EXCEPT !.done = @ \cup {unit}, !.pc = next]
    /\ UNCHANGED <<analyzerVars, cacheVars, harmonic, mail, main>>

FxAnalysis(outcome) == SingleAnalysis("fx", "gold", outcome)
GoldAnalysis(outcome) == SingleAnalysis("gold", "fabo", outcome)
FaboAnalysis(outcome) == SingleAnalysis("fabo", "send", outcome)

\* send_analysis_email(probability_results, fx_results, gold_results,
\* fabo_results): the last statement of the try block.
\* An exception of send_analysis_email would be caught by the except clause.
SendAnalysisEmail(env) ==
    /\ daily.pc = "send"
    /\ LET result == SendAnalysisEmailResult(env)
       IN  daily' = [daily EXCEPT
                !.sent = Append(@, [kind |-> "report", results |-> daily.done,
                                    raised |-> result.raised]),
                !.pc = IF result.raised = "" THEN "returned" ELSE "except"]
    /\ UNCHANGED <<analyzerVars, cacheVars, harmonic, mail, main>>

\* except Exception as e: send_error_email(str(e)).  An exception of
\* send_error_email would leave run_daily_analysis.
SendErrorEmail(env) ==
    /\ daily.pc = "except"
    /\ LET result == SendErrorEmailResult(env)
       IN  daily' = [daily EXCEPT
                !.sent = Append(@, [kind |-> "error", results |-> {},
                                    raised |-> result.raised]),
                !.pc = IF result.raised = "" THEN "returned" ELSE "raised"]
    /\ UNCHANGED <<analyzerVars, cacheVars, harmonic, mail, main>>

NextDaily ==
    \/ StartDailyRun
    \/ \E outcome \in {"ok", "empty", "raise"} : HarmonicFit(outcome)
    \/ \E outcome \in {"ok", "raise"} : ProbabilityAnalysis(outcome)
    \/ \E outcome \in {"ok", "raise"} : FxAnalysis(outcome)
    \/ \E outcome \in {"ok", "raise"} : GoldAnalysis(outcome)
    \/ \E outcome \in {"ok", "raise"} : FaboAnalysis(outcome)
    \/ \E env \in DailyMailEnvs : SendAnalysisEmail(env)
    \/ \E env \in DailyMailEnvs : SendErrorEmail(env)

InitDaily ==
    /\ AnalyzerIdle
    /\ SchedulerIdle
    /\ CacheIdle

SpecDaily == InitDaily /\ [][NextDaily]_vars

\* ------------------------------------------------ state machine: email

\* send_analysis_email(...) is called and runs to its end.
CallSendAnalysisEmail(env) ==
    /\ mail.pc = "idle"
    /\ mail' = [pc |-> "returned", kind |-> "report", env |-> env,
                result |-> SendAnalysisEmailResult(env)]
    /\ UNCHANGED <<analyzerVars, cacheVars, daily, harmonic, main>>

\* send_error_email(error_msg) is called and runs to its end.
CallSendErrorEmail(env) ==
    /\ mail.pc = "idle"
    /\ mail' = [pc |-> "returned", kind |-> "error", env |-> env,
                result |-> SendErrorEmailResult(env)]
    /\ UNCHANGED <<analyzerVars, cacheVars, daily, harmonic, main>>

\* The caller goes on.
MailReturn ==
    /\ mail.pc = "returned"
    /\ mail' = MailIdle
    /\ UNCHANGED <<analyzerVars, cacheVars, daily, harmonic, main>>

NextMail ==
    \/ \E env \in MailEnvs : CallSendAnalysisEmail(env)
    \/ \E env \in MailEnvs : CallSendErrorEmail(env)
    \/ MailReturn

InitMail ==
    /\ AnalyzerIdle
    /\ SchedulerIdle
    /\ CacheIdle

SpecMail == InitMail /\ [][NextMail]_vars

\* ------------------------------------- state machine: main, schedule mode

\* schedule.every().day.at(run_time).do(run_daily_analysis); while True:
EnterLoop ==
    /\ main.pc = "idle"
    /\ main' = [main EXCEPT !.pc = "polling"]
    /\ UNCHANGED <<analyzerVars, cacheVars, daily, harmonic, mail>>

\* schedule.run_pending() at the scheduled time: run_daily_analysis is called.
RunPending ==
    /\ main.pc = "polling"
    /\ main' = [main EXCEPT !.pc = "running"]
    /\ daily' = [DailyIdle EXCEPT !.pc = "harmonic"]
    /\ UNCHANGED <<analyzerVars, cacheVars, harmonic, mail>>

\* run_daily_analysis returns, then time.sleep(60) and the next turn of the
\* loop; or an exception leaves it and reaches except Exception of main,
\* which logs it and ends the program.
JobEnds ==
    /\ main.pc = "running"
    /\ daily.pc \in {"returned", "raised"}
    /\ main' = [pc |-> IF daily.pc = "raised" THEN "crashed" ELSE "polling",
                last |-> daily.sent[Len(daily.sent)].kind]
    /\ daily' = DailyIdle
    /\ UNCHANGED <<analyzerVars, cacheVars, harmonic, mail>>

\* Ctrl+C: except KeyboardInterrupt ends the program.
KeyboardInterrupt ==
    /\ main.pc \in {"polling", "running"}
    /\ main' = [main EXCEPT !.pc = "stopped"]
    /\ UNCHANGED <<analyzerVars, cacheVars, daily, harmonic, mail>>

\* The steps of run_daily_analysis once it is called.
DailySteps ==
    \/ \E outcome \in {"ok", "empty", "raise"} : HarmonicFit(outcome)
    \/ \E outcome \in {"ok", "raise"} : ProbabilityAnalysis(outcome)
    \/ \E outcome \in {"ok", "raise"} : FxAnalysis(outcome)
    \/ \E outcome \in {"ok", "raise"} : GoldAnalysis(outcome)
    \/ \E outcome \in {"ok", "raise"} : FaboAnalysis(outcome)
    \/ \E env \in DailyMailEnvs : SendAnalysisEmail(env)
    \/ \E env \in DailyMailEnvs : SendErrorEmail(env)

NextSchedule ==
    \/ EnterLoop
    \/ RunPending
    \/ main.pc = "running" /\ DailySteps
    \/ JobEnds
    \/ KeyboardInterrupt

InitSchedule ==
    /\ AnalyzerIdle
    /\ SchedulerIdle
    /\ CacheIdle

\* The process is scheduled as long as it is not interrupted: a step of the
\* running job or the return to the loop is taken at some time.
SpecSchedule ==
    /\ InitSchedule
    /\ [][NextSchedule]_vars
    /\ WF_vars((main.pc = "running" /\ DailySteps) \/ JobEnds)

\* --------------------------------------- state machine: the harmonic fit

\* analyzer.analyze(frequencies) is called.
HarmonicAnalyze(frequencies) ==
    /\ harmonic.pc = "idle"
    /\ harmonic.calls_left > 0
    /\ harmonic' = [harmonic EXCEPT
            !.pc = "loop", !.calls_left = @ - 1, !.frequencies = frequencies,
            !.i = 1, !.last = "",
            !.df = <<>>, !.x = <<>>, !.params = NoParams, !.plot = NoPlot]
    /\ UNCHANGED <<analyzerVars, cacheVars, daily, mail, main>>

\* An exception leaves analyze where it is raised: nothing after it runs.
HarmonicRaise(h, error) == [h EXCEPT !.pc = "raised", !.last = error]

\* One iteration of the loop of analyze, with what fetch_index_data returns
\* or raises, what curve_fit returns or raises, and whether the plot raises.
HarmonicIteration(outcome, df, params) ==
    /\ harmonic.pc = "loop"
    /\ harmonic.i <= Len(harmonic.frequencies)
    /\ LET freq == harmonic.frequencies[harmonic.i]
           original_output_dir == harmonic.output_dir
           freq_output_dir == JoinPath(harmonic.output_dir, freq)
           entered == [harmonic EXCEPT
                          !.df = df, !.x = FitGrid(Len(df)),
                          !.output_dir = freq_output_dir,
                          !.params = NoParams, !.plot = NoPlot]
       IN  harmonic' =
            IF outcome = "fetch_raises"
            THEN HarmonicRaise(harmonic, "fetch")
            ELSE IF df = <<>>
            THEN [harmonic EXCEPT !.pc = "iterated", !.last = "empty"]
            ELSE IF outcome = "fit_raises" \/ Len(df) < MinFitRows
            THEN HarmonicRaise(entered, "fit")
            ELSE IF outcome = "plot_raises"
            THEN HarmonicRaise([entered EXCEPT !.params = params], "plot")
            ELSE [entered EXCEPT
                    !.params = params,
                    !.plot = PreparePlotData(params, df, OffsetOf(freq)),
                    !.output_dir = original_output_dir,
                    !.pc = "iterated", !.last = "ok"]
    /\ UNCHANGED <<analyzerVars, cacheVars, daily, mail, main>>

\* The for statement takes the next frequency; df, x, params and the plot
\* data of the iteration before are not read again.
HarmonicNextFrequency ==
    /\ harmonic.pc = "iterated"
    /\ harmonic' = [harmonic EXCEPT
            !.pc = "loop", !.i = @ + 1,
            !.df = <<>>, !.x = <<>>, !.params = NoParams, !.plot = NoPlot]
    /\ UNCHANGED <<analyzerVars, cacheVars, daily, mail, main>>

\* analyze returns after the last frequency, or the exception reaches the
\* caller; the locals of analyze are gone.
HarmonicReturn ==
    /\ \/ harmonic.pc = "loop" /\ harmonic.i > Len(harmonic.frequencies)
       \/ harmonic.pc = "raised"
    /\ harmonic' = [harmonic EXCEPT
            !.pc = "idle",
            !.last = IF harmonic.pc = "raised" THEN "raised" ELSE "returned",
            !.frequencies = <<>>, !.i = 1,
            !.df = <<>>, !.x = <<>>, !.params = NoParams, !.plot = NoPlot]
    /\ UNCHANGED <<analyzerVars, cacheVars, daily, mail, main>>

NextHarmonicFit ==
    \/ \E frequencies \in FrequencyLists : HarmonicAnalyze(frequencies)
    \/ HarmonicIteration("fetch_raises", <<>>, NoParams)
    \/ \E df \in PriceSeries : HarmonicIteration("fit_raises", df, NoParams)
    \/ \E outcome \in {"ok", "plot_raises"}, df \in PriceSeries, params \in FitParams :
            HarmonicIteration(outcome, df, params)
    \/ HarmonicNextFrequency
    \/ HarmonicReturn

\* A HarmonicAnalyzer with the default output_dir, before its first analyze.
InitHarmonic ==
    /\ AnalyzerIdle
    /\ CacheIdle
    /\ daily = DailyIdle
    /\ mail = MailIdle
    /\ main = MainIdle
    /\ harmonic = [HarmonicIdle EXCEPT !.calls_left = MaxAnalyses]

SpecHarmonic == InitHarmonic /\ [][NextHarmonicFit]_vars

\* ------------------------------------------- state machine: the data cache

\* fetch_index_data(index_code, start_date, end_date, freq=freq) is called.
BeginFetch(p, key) ==
    /\ fetch[p].pc = "idle"
    /\ fetch[p].calls_left > 0
    /\ fetch' = [fetch EXCEPT ![p] =
            [pc |-> "check", key |-> key, df |-> <<>>, used_provider |-> FALSE,
             calls_left |-> @.calls_left - 1, result |-> NoResult]]
    /\ UNCHANGED <<analyzerVars, schedulerVars, runs, files, book>>

\* if os.path.exists(cache_path): ... else: ...
CheckCache(p) ==
    /\ fetch[p].pc = "check"
    /\ fetch' = [fetch EXCEPT ![p].pc =
            IF CacheExists(files, CacheFilename(fetch[p].key)) THEN "read" ELSE "api"]
    /\ UNCHANGED <<analyzerVars, schedulerVars, runs, files, book>>

\* df = pd.read_csv(cache_path, ...) on a file that is complete.
ReadCache(p) ==
    /\ fetch[p].pc = "read"
    /\ files[CacheFilename(fetch[p].key)].complete
    /\ fetch' = [fetch EXCEPT
            ![p].pc = "process",
            ![p].df = ReadCsv(files[CacheFilename(fetch[p].key)].rows)]
    /\ UNCHANGED <<analyzerVars, schedulerVars, runs, files, book>>

\* pd.read_csv on a file another run has opened and not yet closed, or that
\* was removed after the test for its existence: it raises (EmptyDataError,
\* FileNotFoundError) and fetch_index_data with it.
ReadCacheFails(p) ==
    /\ fetch[p].pc = "read"
    /\ ~files[CacheFilename(fetch[p].key)].complete
    /\ fetch' = [fetch EXCEPT ![p] =
            FetchIdle(@.calls_left,
                [NoResult EXCEPT
                    !.raised = IF files[CacheFilename(fetch[p].key)].present
                               THEN "EmptyDataError" ELSE "FileNotFoundError",
                    !.key = fetch[p].key])]
    /\ book' = [book EXCEPT !.seen =
            IF files[CacheFilename(fetch[p].key)].present
            THEN @ \cup {"read_during_write"} ELSE @]
    /\ UNCHANGED <<analyzerVars, schedulerVars, runs, files>>

\* df = self._fetch_from_api(...): the provider returns a frame.
FetchFromApi(p, frame) ==
    /\ fetch[p].pc = "api"
    /\ fetch' = [fetch EXCEPT
            ![p].pc = "open", ![p].df = frame, ![p].used_provider = TRUE]
    /\ book' = [book EXCEPT !.provided[fetch[p].key] = @ + 1]
    /\ UNCHANGED <<analyzerVars, schedulerVars, runs, files>>

\* self._fetch_from_api(...) raises: nothing is cached.
FetchFromApiFails(p) ==
    /\ fetch[p].pc = "api"
    /\ fetch' = [fetch EXCEPT ![p] =
            FetchIdle(@.calls_left,
                [NoResult EXCEPT !.raised = "ProviderError", !.key = fetch[p].key,
                                 !.used_provider = TRUE])]
    /\ UNCHANGED <<analyzerVars, schedulerVars, runs, files, book>>

\* df.to_csv(cache_path, index=False) opens the file for writing: the file
\* exists and is empty.
OpenCacheFile(p) ==
    /\ fetch[p].pc = "open"
    /\ files' = [files EXCEPT ![CacheFilename(fetch[p].key)] = Opened]
    /\ fetch' = [fetch EXCEPT ![p].pc = "write"]
    /\ book' = [book EXCEPT !.seen =
            IF files[CacheFilename(fetch[p].key)].present
            THEN @ \cup {"double_write"} ELSE @]
    /\ UNCHANGED <<analyzerVars, schedulerVars, runs>>

\* to_csv writes the rows and closes the file.
WriteCacheFile(p) ==
    /\ fetch[p].pc = "write"
    /\ files' = [files EXCEPT ![CacheFilename(fetch[p].key)] =
            IF @.present THEN Written(ToCsv(fetch[p].df)) ELSE @]
    /\ fetch' = [fetch EXCEPT ![p].pc = "process"]
    /\ UNCHANGED <<analyzerVars, schedulerVars, runs, book>>

\* return self._process_data(df)
ReturnProcessed(p) ==
    /\ fetch[p].pc = "process"
    /\ LET key == fetch[p].key
           rows == ProcessData(fetch[p].df)
       IN  /\ fetch' = [fetch EXCEPT ![p] =
                FetchIdle(@.calls_left,
                    [raised |-> "", rows |-> rows, key |-> key,
                     nth |-> book.successes[key] + 1,
                     used_provider |-> fetch[p].used_provider])]
           /\ book' = [book EXCEPT
                !.successes[key] = @ + 1,
                !.first_rows[key] = IF book.successes[key] = 0 THEN <<rows>> ELSE @]
    /\ UNCHANGED <<analyzerVars, schedulerVars, runs, files>>

\* clear_cache(): every .csv file of the cache directory is removed.
ClearCache(p) ==
    /\ fetch[p].pc = "idle"
    /\ fetch[p].calls_left > 0
    /\ files' = [name \in Filenames |-> Absent]
    /\ fetch' = [fetch EXCEPT ![p].calls_left = @ - 1]
    /\ book' = BookEmpty(book.seen)
    /\ UNCHANGED <<analyzerVars, schedulerVars, runs>>

NextCache ==
    \/ \E p \in runs, key \in Keys : BeginFetch(p, key)
    \/ \E p \in runs : CheckCache(p)
    \/ \E p \in runs : ReadCache(p)
    \/ \E p \in runs : ReadCacheFails(p)
    \/ \E p \in runs, frame \in ProviderFrames : FetchFromApi(p, frame)
    \/ \E p \in runs : FetchFromApiFails(p)
    \/ \E p \in runs : OpenCacheFile(p)
    \/ \E p \in runs : WriteCacheFile(p)
    \/ \E p \in runs : ReturnProcessed(p)
    \/ \E p \in runs : ClearCache(p)

\* One run of the program, or two runs that share the cache directory.
InitCache ==
    /\ AnalyzerIdle
    /\ SchedulerIdle
    /\ runs \in {{1}, {1, 2}}
    /\ files = [name \in Filenames |-> Absent]
    /\ fetch = [p \in {1, 2} |-> FetchIdle(IF p \in runs THEN MaxCalls ELSE 0, NoResult)]
    /\ book = BookEmpty({})

SpecCache == InitCache /\ [][NextCache]_vars

\* ------------------------------------------------------- claims: State Mapper

\* The smallest k in 0..4 with r <= thr[k], and 5 when there is none.
SmallestK(r, thr) ==
    IF \E k \in 0..4 : Le(r, thr[k])
    THEN CHOOSE k \in 0..4 : Le(r, thr[k]) /\ \A j \in 0..(k - 1) : ~Le(r, thr[j])
    ELSE 5

\* The five boundaries are not in ascending order.
Unordered(thr) ==
    \E k \in 0..3 : thr[k] # NaN /\ thr[k + 1] # NaN /\ thr[k][1] > thr[k + 1][1]

\* C1: _map_return_to_state(r) is the smallest k in 0..4 with r <= t[k], 5 when
\* no such k exists, and always an integer in 0..5.
C1_SmallestThreshold ==
    call.op = "map" =>
        /\ ret.state \in 0..5
        /\ ret.state = SmallestK(call.ret, thresholds)

C1_Witness ==
    /\ call.op = "map"
    /\ ret.state = 3
    /\ ~Unordered(thresholds)
    /\ Len(data) >= 2

\* C2: with the thresholds of a fetched history, the state is in {0,1,2} iff
\* r <= 0 and in {3,4,5} iff r > 0.
C2_SignSplitsStates ==
    call.op = "map" /\ Len(data) >= 1 =>
        /\ (ret.state \in {0, 1, 2}) <=> (call.ret <= 0)
        /\ (ret.state \in {3, 4, 5}) <=> (call.ret > 0)

\* threshold[j] < r, with threshold[-1] = -infinity
AboveBoundary(j, r, thr) == j < 0 \/ Lt(thr[j], r)
\* r <= threshold[k], with threshold[5] = +infinity
WithinBoundary(k, r, thr) == k > 4 \/ Le(r, thr[k])

\* C3: with the thresholds of a fetched history, the state is k iff
\* threshold[k-1] < r <= threshold[k], for every k in 0..5.
C3_StateIffBracket ==
    call.op = "map" /\ Len(data) >= 1 =>
        \A k \in 0..5 :
            (ret.state = k) <=> (/\ AboveBoundary(k - 1, call.ret, thresholds)
                           /\ WithinBoundary(k, call.ret, thresholds))

\* C4: for every threshold vector the analyzer can hold, ascending or not,
\* r1 <= r2 implies _map_return_to_state(r1) <= _map_return_to_state(r2).
C4_Monotone ==
    call.op = "map" =>
        \A r2 \in ProbeReturns(thresholds) :
            /\ call.ret <= r2 => ret.state <= MapReturnToState(r2, thresholds)
            /\ r2 <= call.ret => MapReturnToState(r2, thresholds) <= ret.state

C4_Witness ==
    /\ call.op = "map"
    /\ Unordered(thresholds)
    /\ call.ret > 0
    /\ ret.state = 1

\* C5: thresholds[2] is exactly 0 after construction, whatever the median of
\* pct_chg is, and after every sequence of calls on the analyzer.
C5_MedianPinnedToZero ==
    thresholds[2] = Num(0)

C5_Witness ==
    /\ call.op = "analyze"
    /\ Len(data) >= 1
    /\ Quantile(data, QuantileLevels[3]) # Num(0)
    /\ ret.raised = ""

\* --------------------------------------- claims: Transition Matrix Estimator

Estimated == call.op \in {"first", "second"}

\* The entries of a row add up to exactly 1.
RowIsOne(row) ==
    /\ \A b \in StateIds : row[b].den = row[0].den
    /\ SumTo([b \in StateIds |-> row[b].num], NumStates - 1) = row[0].den

RowAllZero(row) == \A b \in StateIds : row[b].num = 0

\* The positions i (1-based) of s that start an adjacent pair leaving state a.
PairsFrom(s, a) == {i \in 1..(Len(s) - 1) : s[i] = a}
\* The positions i (1-based) of s that start a triple whose two preceding
\* states are coded row = s[i]*6 + s[i+1].
TriplesFrom(s, row) == {i \in 1..(Len(s) - 2) : s[i] * 6 + s[i + 1] = row}

C7_WindowSelection ==
    Estimated /\ call.window_size >= 1 =>
        LET n == Len(data)
            W == call.window_size
            skip == IF call.include_today THEN 0 ELSE 1
            L == IF n = 0 THEN 0 ELSE Min(W, n - skip)
        IN  /\ Len(ret.states) = L
            /\ \A i \in 1..L :
                ret.states[i] = MapReturnToState(data[n - skip - L + i], thresholds)

C7_Witness ==
    /\ Estimated
    /\ ~call.include_today
    /\ call.window_size = 2
    /\ Len(data) = 4
    /\ Len(ret.states) = 2
    /\ MapReturnToState(data[4], thresholds) \notin {ret.states[1], ret.states[2]}

\* C8: create_first_order_matrix counts exactly the L-1 adjacent pairs
\* (s[i], s[i+1]) once each, and entry [a][b] is (number of pairs a -> b) /
\* (number of pairs leaving a) whenever that denominator is not zero.
C8_FirstOrderIsPairFrequency ==
    call.op = "first" =>
        LET s == ret.states
            PairCount(a, b) == Cardinality({i \in PairsFrom(s, a) : s[i + 1] = b})
        IN  /\ CountFirst(s) =
                [a \in StateIds |-> [b \in StateIds |-> PairCount(a, b)]]
            /\ \A a \in StateIds : \A b \in StateIds :
                LET from == Cardinality(PairsFrom(s, a))
                IN  from # 0 =>
                        ret.matrix[a][b].num * from
                            = PairCount(a, b) * ret.matrix[a][b].den

C8_Witness ==
    /\ call.op = "first"
    /\ Len(ret.states) = 4
    /\ \E a \in StateIds : \E b \in StateIds :
        /\ ret.matrix[a][b].den = 2
        /\ ret.matrix[a][b].num = 1

\* C9: for L >= 3 create_second_order_matrix counts exactly the L-2 triples once
\* each, the triple (s[i-2], s[i-1], s[i]) in row s[i-2]*6 + s[i-1], column
\* s[i]; the row index is injective on [0,5]x[0,5] (the 36 ordered pairs have
\* 36 different indices) and lies in 0..35.
C9_SecondOrderIsTripleFrequency ==
    /\ {CombinedState(a1, a2) : a1 \in StateIds, a2 \in StateIds} \subseteq 0..35
    /\ Cardinality({CombinedState(a1, a2) : a1 \in StateIds, a2 \in StateIds})
            = Cardinality(StateIds \X StateIds)
    /\ call.op = "second" /\ Len(ret.states) >= 3 =>
        LET s == ret.states
            TripleCount(row, b) ==
                Cardinality({i \in TriplesFrom(s, row) : s[i + 2] = b})
        IN  /\ CountSecond(s) =
                [row \in 0..35 |-> [b \in StateIds |-> TripleCount(row, b)]]
            /\ \A row \in 0..35 : \A b \in StateIds :
                LET from == Cardinality(TriplesFrom(s, row))
                IN  /\ from # 0 =>
                        ret.matrix[row][b].num * from
                            = TripleCount(row, b) * ret.matrix[row][b].den
                    /\ from = 0 => ret.matrix[row][b].num = 0

C9_Witness ==
    /\ call.op = "second"
    /\ Len(ret.states) = 4
    /\ ret.states[1] # ret.states[2]
    /\ ret.states[2] # ret.states[3]
    /\ \E row \in 0..35 : RowIsOne(ret.matrix[row])

\* C10: when every return of a window of length >= 2 maps to state 3, the
\* first-order matrix has matrix[3][3] = 1 and every other entry 0.
C10_AllSmallUp ==
    (/\ call.op = "first"
     /\ Len(ret.states) >= 2
     /\ \A i \in 1..Len(ret.states) : ret.states[i] = 3) =>
        \A a \in StateIds : \A b \in StateIds :
            IF a = 3 /\ b = 3
            THEN ret.matrix[a][b].num = ret.matrix[a][b].den
            ELSE ret.matrix[a][b].num = 0

C10_Witness ==
    /\ call.op = "first"
    /\ Len(ret.states) >= 3
    /\ \A i \in 1..Len(ret.states) : ret.states[i] = 3
    /\ ret.matrix[3][3].num = ret.matrix[3][3].den

\* ------------------------------------------- claims: Transition Predictor

\* current_state is a state (order 1), a pair of states (order 2).
ValidState(x) == x.type = "int" /\ x.v \in StateIds
ValidPair(x) ==
    /\ x.type = "tuple"
    /\ Len(x.items) = 2
    /\ ValidState(x.items[1])
    /\ ValidState(x.items[2])

\* C11: for a state s in 0..5 the first-order predictor returns row s of the
\* matrix unchanged; for a pair (s1, s2) of states the second-order predictor
\* returns row s1*6 + s2, the row the estimator filled for the pair (older s1,
\* newer s2).
C11_PredictorReturnsRow ==
    /\ call.op = "predict1" /\ ValidState(call.current_state) =>
        /\ ret.raised = ""
        /\ ret.probs = TomorrowFirstMatrix(data, thresholds)[call.current_state.v]
    /\ call.op = "predict2" /\ ValidPair(call.current_state) =>
        LET s1 == call.current_state.items[1].v
            s2 == call.current_state.items[2].v
            s == SecondOrderMatrix(data, thresholds, SecondOrderWindow, TRUE).states
            from == {i \in 1..(Len(s) - 2) : s[i] = s1 /\ s[i + 1] = s2}
        IN  /\ ret.raised = ""
            /\ ret.probs = TomorrowSecondMatrix(data, thresholds)[s1 * 6 + s2]
            /\ \A b \in StateIds :
                IF from = {} THEN ret.probs[b].num = 0
                ELSE ret.probs[b].num * Cardinality(from)
                        = Cardinality({i \in from : s[i + 2] = b}) * ret.probs[b].den

C11_Witness ==
    /\ call.op = "predict2"
    /\ ValidPair(call.current_state)
    /\ call.current_state.items[1] # call.current_state.items[2]
    /\ \E b \in StateIds : ret.probs[b].num # 0

\* C12: for every current_state that is not a state (order 1) or not a pair of
\* states (order 2) -- None, out of 0..5, not a 2-tuple, a 2-tuple with a
\* component that is None or no state -- the predictor returns the all-zero
\* vector of length 6 and does not raise.
C12_InvalidGivesZeros ==
    /\ call.op = "predict1" /\ ~ValidState(call.current_state) =>
        ret.raised = "" /\ ret.probs = Zeros6
    /\ call.op = "predict2" /\ ~ValidPair(call.current_state) =>
        ret.raised = "" /\ ret.probs = Zeros6

\* ------------------------------------------------- claims: analyze_today

\* The result of analyze_today the caller holds, from analyze_today itself or
\* inside the result of analyze.
HoldsToday == call.op \in {"today", "analyze"} /\ ret.raised = ""
Today == IF call.op = "analyze" THEN ret.today ELSE ret

IsZero(p) == p.num = 0

\* C13: in every result of analyze_today, alert_level is "strong" exactly when
\* first_order_prob and second_order_prob are both 0, "normal" exactly when
\* exactly one of them is 0, and "none" exactly when both are non-zero.
C13_AlertLevel ==
    HoldsToday =>
        LET z1 == IsZero(Today.first_order_prob)
            z2 == IsZero(Today.second_order_prob)
        IN  /\ Today.alert_level \in {"strong", "normal", "none"}
            /\ (Today.alert_level = "strong") <=> (z1 /\ z2)
            /\ (Today.alert_level = "normal") <=> (z1 # z2)
            /\ (Today.alert_level = "none") <=> (~z1 /\ ~z2)

C13_Witness ==
    /\ call.op = "today"
    /\ ret.raised = ""
    /\ ret.alert_level = "normal"
    /\ ~IsZero(ret.first_order_prob)
    /\ IsZero(ret.second_order_prob)

\* The state of the return at (1-based) position i of the history.
StateAt(i) == MapReturnToState(data[i], thresholds)

\* The frequencies of the state after the state a, over the adjacent pairs of
\* the positions lo..hi of the history: p is that row, given as probabilities.
IsPairFrequency(p, lo, hi, a) ==
    LET from == {i \in lo..(hi - 1) : StateAt(i) = a}
    IN  \A b \in StateIds :
            IF from = {} THEN p[b].num = 0
            ELSE p[b].num * Cardinality(from)
                    = Cardinality({i \in from : StateAt(i + 1) = b}) * p[b].den

\* The frequencies of the state after the states a1, a2, over the triples of
\* the positions lo..hi of the history.
IsTripleFrequency(p, lo, hi, a1, a2) ==
    LET from == {i \in lo..(hi - 2) : StateAt(i) = a1 /\ StateAt(i + 1) = a2}
    IN  \A b \in StateIds :
            IF from = {} THEN p[b].num = 0
            ELSE p[b].num * Cardinality(from)
                    = Cardinality({i \in from : StateAt(i + 2) = b}) * p[b].den

Max(a, b) == IF a >= b THEN a ELSE b

\* C14: in analyze_today, with enough data, both matrices are estimated only
\* from the returns before the most recent one (the 60, respectively 360,
\* before it); the order-1 row is that of the state of the return before the
\* most recent one, the order-2 row that of the pair (state two before, state
\* one before); first_order_prob and second_order_prob are those rows' entries
\* at the state of the most recent return.
C14_TodayExcludesToday ==
    HoldsToday /\ Len(data) >= 4 =>
        LET n == Len(data)
        IN  /\ Today.today_state = StateAt(n)
            /\ IsPairFrequency(Today.first_order_probs,
                    Max(1, n - FirstOrderWindow), n - 1, StateAt(n - 1))
            /\ IsTripleFrequency(Today.second_order_probs,
                    Max(1, n - SecondOrderWindow), n - 1,
                    StateAt(n - 2), StateAt(n - 1))
            /\ Today.first_order_prob = Today.first_order_probs[StateAt(n)]
            /\ Today.second_order_prob = Today.second_order_probs[StateAt(n)]

C14_Witness ==
    /\ call.op = "today"
    /\ ret.raised = ""
    /\ Len(data) = LongLen
    /\ 0 < ret.first_order_prob.num
    /\ ret.first_order_prob.num < ret.first_order_prob.den
    /\ ~IsZero(ret.second_order_prob)

\* A history of LongLen returns whose last MaxTail returns are an extreme
\* positive return that occurs nowhere before them.
ShiftInjected ==
    /\ Len(data) = LongLen
    /\ \A i \in 1..Len(data) :
        IF i > Len(data) - MaxTail THEN data[i] = Extreme ELSE data[i] < Extreme

\* C17: for a history of 400 daily returns whose last 5 returns are extreme
\* positive values that occur nowhere earlier, analyze_today returns
\* alert_level "strong" or "normal", never "none".
C17_ShiftRaisesAlert ==
    HoldsToday /\ ShiftInjected => Today.alert_level \in {"strong", "normal"}

\* C17, as the code has it: the four extreme returns before the most recent
\* one are inside both estimation windows, so the transitions 5 -> 5 and
\* (5, 5) -> 5 have been counted, both probabilities of the realized state are
\* non-zero and alert_level is "none".
C17_ShiftRaisesNoAlert ==
    HoldsToday /\ ShiftInjected =>
        /\ Today.today_state = NumStates - 1
        /\ ~IsZero(Today.first_order_prob)
        /\ ~IsZero(Today.second_order_prob)
        /\ Today.alert_level = "none"

C17_Witness ==
    /\ call.op = "today"
    /\ ret.raised = ""
    /\ ShiftInjected
    /\ ret.alert_level = "none"
    /\ \E i \in 1..Len(data) : \E j \in 1..Len(data) : data[i] # data[j] /\ data[j] < data[i] /\ data[i] < Extreme

\* C28: for every history of exactly 1 or 2 observations analyze_today returns
\* alert_level "strong" whatever the returns are, and alert_level "none" is
\* not returned for a history of fewer than 4 observations.
C28_ShortHistoryIsStrong ==
    HoldsToday =>
        /\ Len(data) \in {1, 2} => Today.alert_level = "strong"
        /\ Today.alert_level = "none" => Len(data) >= 4

\* A history of 2 observations: no transition was counted and the alert is
\* the one of a transition both matrices rule out.
C28_Witness ==
    /\ HoldsToday
    /\ Len(data) = 2
    /\ RowAllZero(Today.first_order_probs)
    /\ RowAllZero(Today.second_order_probs)
    /\ Today.alert_level = "strong"

\* With 4 observations the alert level "none" is returned.
NoneAtFour == HoldsToday /\ Len(data) = 4 /\ Today.alert_level = "none"

\* ---------------------------------------------- claims: predict_tomorrow

HoldsTomorrow == call.op \in {"tomorrow", "analyze"} /\ ret.raised = ""
Tomorrow == IF call.op = "analyze" THEN ret.tomorrow ELSE ret

\* C15: in predict_tomorrow, with enough data, both matrices are estimated
\* from the window that ends with the most recent return (last 60,
\* respectively last 360); current_state is the state of the most recent
\* return, the order-1 prediction is the row of that state, the order-2
\* prediction the row of the pair (state of the previous return, state of the
\* most recent return); the result holds no comparison with a realized state.
C15_TomorrowIncludesToday ==
    HoldsTomorrow /\ Len(data) >= 3 =>
        LET n == Len(data)
        IN  /\ Tomorrow.current_state = StateAt(n)
            /\ IsPairFrequency(Tomorrow.first_order_probs,
                    Max(1, n - FirstOrderWindow + 1), n, StateAt(n))
            /\ IsTripleFrequency(Tomorrow.second_order_probs,
                    Max(1, n - SecondOrderWindow + 1), n,
                    StateAt(n - 1), StateAt(n))
            /\ DOMAIN Tomorrow = {"raised", "current_state",
                                  "first_order_probs", "second_order_probs"}

C15_Witness ==
    /\ call.op = "tomorrow"
    /\ Len(data) = LongLen
    /\ ret.current_state = StateAt(Len(data))
    /\ \E b \in StateIds :
        /\ 0 < ret.first_order_probs[b].num
        /\ ret.first_order_probs[b].num < ret.first_order_probs[b].den
    /\ \E b \in StateIds : ret.second_order_probs[b].num # 0

\* The state of the most recent return also occurs before it in the window of
\* the last FirstOrderWindow returns.
RecentStateSeenEarlier ==
    LET n == Len(data)
        lo == Max(1, n - FirstOrderWindow + 1)
    IN  \E i \in lo..(n - 1) : StateAt(i) = StateAt(n)

\* C27: for every window of L >= 1 states, the first-order prediction of
\* predict_tomorrow sums to 1 if and only if the state of the most recent
\* return also occurs at an earlier position of the window; when it occurs
\* only at the last position the prediction is the all-zero vector, even
\* with a full window.
C27_TomorrowSumsToOne ==
    HoldsTomorrow /\ Len(data) >= 1 =>
        /\ RowIsOne(Tomorrow.first_order_probs) <=> RecentStateSeenEarlier
        /\ ~RecentStateSeenEarlier => RowAllZero(Tomorrow.first_order_probs)

\* A full window whose most recent state is new: the prediction is all-zero.
C27_Witness ==
    /\ HoldsTomorrow
    /\ Len(data) > FirstOrderWindow
    /\ ~RecentStateSeenEarlier
    /\ RowAllZero(Tomorrow.first_order_probs)

\* ------------------------------------------------- claims: repeated calls

C18_FailureIsLocal ==
    daily.pc = "returned" /\ daily.failed # {} =>
        /\ daily.done \cup daily.skipped \cup daily.failed = AllUnits
        /\ \E i \in DOMAIN daily.sent :
            daily.sent[i].kind = "report" /\ daily.sent[i].results = daily.done

\* run_daily_analysis calls the analyses in this order.
Rank(kind) ==
    CASE kind = "harmonic" -> 1
      [] kind = "probability" -> 2
      [] kind = "fx" -> 3
      [] kind = "gold" -> 4
      [] kind = "fabo" -> 5

\* C25: run_daily_analysis runs the analyses in the order harmonic,
\* probability, FX, gold, Fibonacci, each unit once, and then calls exactly
\* one of send_analysis_email and send_error_email: send_analysis_email if
\* and only if every analysis returned, send_error_email otherwise.
C25_OrderAndOneEmail ==
    /\ \A i, j \in DOMAIN daily.order :
        i < j =>
            /\ Rank(daily.order[i].kind) <= Rank(daily.order[j].kind)
            /\ daily.order[i] # daily.order[j]
    /\ daily.pc # "returned" => daily.sent = <<>>
    /\ daily.pc = "returned" =>
        /\ Len(daily.sent) = 1
        /\ daily.sent[1].kind \in {"report", "error"}
        /\ daily.sent[1].kind = "report" <=>
                /\ daily.failed = {}
                /\ {daily.order[i] : i \in DOMAIN daily.order} = AllUnits
                /\ daily.done \cup daily.skipped = AllUnits

\* A run in which the FX analysis raised after every harmonic and
\* probability analysis had returned, and the error email was sent.
C25_Witness ==
    /\ daily.pc = "returned"
    /\ daily.failed = {Unit("fx", 0, "")}
    /\ Len(daily.order) = Cardinality(HarmonicUnits \cup ProbabilityUnits) + 1
    /\ Len(daily.sent) = 1
    /\ daily.sent[1].kind = "error"

\* C26: run_daily_analysis, send_analysis_email and send_error_email never let
\* an Exception reach their caller, whatever analysis or mail step fails, so
\* in schedule mode the polling loop of main is never ended by a failed
\* daily run: after every run it is polling again, unless the user
\* interrupted the program.
C26_LoopSurvivesFailedRuns ==
    /\ [](/\ main.pc # "crashed"
          /\ daily.pc # "raised"
          /\ \A i \in DOMAIN daily.sent : daily.sent[i].raised = "")
    /\ (main.pc = "running") ~> (main.pc \in {"polling", "stopped"})

\* The loop is polling again after a run that failed and sent the error
\* email.
C26_Witness == main.pc = "polling" /\ main.last = "error"

\* ------------------------------------------------------ claims: data cache

\* One run of the program: its calls of fetch_index_data follow one another.
Sequential == Cardinality(runs) = 1

\* Run p holds the result of a fetch_index_data call that returned a frame.
Fetched(p) ==
    /\ fetch[p].pc = "idle"
    /\ fetch[p].result.raised = ""
    /\ fetch[p].result.key \in Keys

\* C19: after one successful fetch_index_data call with a key, and as long as
\* clear_cache is not called, every later call with the same key returns the
\* rows of the first call and makes no call to the provider; the provider is
\* called exactly once per key, on the first miss.
C19_CacheRoundTrip ==
    Sequential =>
        \A p \in runs :
            Fetched(p) /\ book.successes[fetch[p].result.key] >= 1 =>
                LET key == fetch[p].result.key
                IN  /\ <<fetch[p].result.rows>> = book.first_rows[key]
                    /\ fetch[p].result.nth >= 2 => ~fetch[p].result.used_provider
                    /\ book.provided[key] = 1

\* C20: the cache check and the cache write are not protected by a lock.  A
\* single sequential run never writes a cache file that exists already and
\* never reads one that is still being written; with two concurrent runs
\* both happen (C20_Witness): both runs observe a miss, call the provider and
\* write the same file, and a run reads the file the other is writing.
C20_SequentialRunIsSafe ==
    Sequential =>
        /\ book.seen = {}
        /\ \A name \in Filenames :
            files[name].present /\ ~files[name].complete =>
                \E p \in runs :
                    fetch[p].pc = "write" /\ CacheFilename(fetch[p].key) = name

C20_Witness ==
    /\ ~Sequential
    /\ book.seen = {"double_write", "read_during_write"}
    /\ \E key \in Keys :
        /\ book.provided[key] = 2
        /\ \E p \in runs : fetch[p].result.raised = "EmptyDataError"
                              /\ fetch[p].result.key = key

\* ------------------------------------------------ claims: too little data

\* The number of states the estimators of the call see: the window excludes
\* the most recent return in analyze_today and includes it in predict_tomorrow.
StatesSeen ==
    IF call.op = "today" THEN (IF Len(data) = 0 THEN 0 ELSE Len(data) - 1)
    ELSE Len(data)

\* C16: for every history with too few observations (fewer than 3 states for
\* the second-order matrix, fewer than 2 for a prediction, down to the empty
\* history) analyze_today and predict_tomorrow complete without raising and
\* return the all-zero vector for each order that lacks data.
C16_DegradesToZeros ==
    call.op \in {"today", "tomorrow"} /\ StatesSeen < 3 =>
        /\ ret.raised = ""
        /\ StatesSeen < 2 => ret.first_order_probs = Zeros6
        /\ ret.second_order_probs = Zeros6

\* ------------------------------------------------------ claims: harmonic fit

\* An iteration of analyze that fitted and plotted has just ended.
Fitted == harmonic.pc = "iterated" /\ harmonic.last = "ok"

\* C22: for every price series of n >= 2 rows, the fit pairs the close price
\* at row i with the abscissa x = i: the x values are 0, 1, ..., n - 1.
C22_GridIsRowIndex ==
    Len(harmonic.df) >= 2 =>
        /\ Len(harmonic.x) = Len(harmonic.df)
        /\ \A i \in DOMAIN harmonic.x : FracEq(harmonic.x[i], Frac(i - 1, 1))

\* C23: the residual reported for row i is actual(i) minus the fitted
\* function at the abscissa row i had in the fit, and the grid of the
\* extrapolated curve agrees with the fitting grid on the observed rows and
\* extends it by the offset.
C23_ResidualAtFitAbscissa ==
    Fitted =>
        LET n == Len(harmonic.df)
            offset == OffsetOf(harmonic.frequencies[harmonic.i])
        IN  /\ harmonic.plot.y1_len = n + offset
            /\ \A i \in 1..n :
                /\ FracEq(harmonic.plot.diffs[i],
                          FracSub(Frac(harmonic.df[i], 1),
                                  ObjectiveFunction(harmonic.x[i], harmonic.params)))
                /\ FracEq(PlotGrid(n, offset)[i], harmonic.x[i])

\* C24: the percentile of the current residual is 100 (or 100 * (n - 1) / n)
\* when it is the maximum of the residual sample, and 0 when it is the
\* minimum.
C24_PercentileOfExtremes ==
    Fitted =>
        LET diffs == harmonic.plot.diffs
            n == Len(diffs)
            curr == harmonic.plot.curr
            pct == harmonic.plot.percentile
        IN  /\ (\A i \in 1..n : FracLeq(diffs[i], curr)) =>
                FracEq(pct, Frac(100, 1)) \/ FracEq(pct, Frac(100 * (n - 1), n))
            /\ (\A i \in 1..n : FracLeq(curr, diffs[i])) =>
                FracEq(pct, Frac(0, 1))

\* C30: analyze leaves output_dir as it was before the call, whatever each
\* frequency did: fitted, skipped for want of data, or raised.
C30_OutputDirRestored ==
    harmonic.pc = "idle" => harmonic.output_dir = DefaultOutputDir

\* ---------------------------------------------------------- claims: email

\* The call met neither an exception outside its loop nor one while the body
\* of the email was built: only sends can fail.
OnlySendsFail ==
    /\ ~mail.env.setup_raises
    /\ mail.kind = "report" => ~mail.env.body_raises

\* C29: in send_analysis_email and send_error_email a send attempt is made for
\* every recipient in list order, whichever of the sends fail; and no
\* attempt is made when the email configuration is incomplete or the list of
\* recipients is empty.
C29_EveryRecipientAttempted ==
    mail.pc = "returned" =>
        LET attempts == mail.result.attempts
            recipients == mail.env.recipients
        IN  /\ mail.result.raised = ""
            /\ ~mail.env.config_complete \/ recipients = <<>> => attempts = <<>>
            /\ mail.env.config_complete /\ OnlySendsFail =>
                /\ Len(attempts) = Len(recipients)
                /\ \A i \in DOMAIN recipients :
                    /\ attempts[i].to = recipients[i]
                    /\ attempts[i].raised <=> recipients[i] \in mail.env.refused

\* The send to the first of three recipients failed and the two after it
\* were attempted, the last one successfully.
C29_Witness ==
    /\ mail.pc = "returned"
    /\ mail.kind = "report"
    /\ Len(mail.env.recipients) = MaxRecipients
    /\ Len(mail.result.attempts) = MaxRecipients
    /\ mail.result.attempts[1].raised
    /\ ~mail.result.attempts[MaxRecipients].raised

====
